---- MODULE Spec2Model ----
(***************************************************************************)
(* Patent.filter and Patent.fetch_representation of main/models.py: the    *)
(* criteria bundle, the datastore snapshot, the predicate the filter       *)
(* composes, the rows the datastore returns for it, and the aggregates of  *)
(* the representation query.                                               *)
(*                                                                         *)
(* Text (codes, names, keywords, titles) is a sequence of one-character    *)
(* strings, so that prefix tests, joins and case folding are computed.     *)
(***************************************************************************)
EXTENDS Integers, Sequences, FiniteSets, TLC

VARIABLES
    db,       \* the datastore snapshot: the set of patent ids it holds
    data,     \* the criteria bundles (dict objects) of the caller, by object id
    before,   \* per invocation, the contents of its bundle when it was called
    inv,      \* the frames of the filter invocations, in the order called
    edits,    \* how many keys of the bundle the caller has set or removed
    calls,    \* how many filter calls have returned
    rep       \* the last value of fetch_representation

vars == <<db, data, before, inv, edits, calls, rep>>

----------------------------------------------------------------------------
(* Bounds of the model.                                                    *)

MaxEdits == 2      \* keys set or removed in a bundle left otherwise empty
MaxCriteria == 3   \* criteria set in a search
MaxCalls == 2      \* filter calls on one bundle
MaxCodes == 2      \* codes selected at one level

----------------------------------------------------------------------------
(* Text.                                                                   *)

Upper ==
    [a |-> "A", b |-> "B", c |-> "C", d |-> "D", e |-> "E", f |-> "F",
     g |-> "G", h |-> "H", i |-> "I", j |-> "J", k |-> "K", l |-> "L",
     m |-> "M", n |-> "N", o |-> "O", p |-> "P", q |-> "Q", r |-> "R",
     s |-> "S", t |-> "T", u |-> "U", v |-> "V", w |-> "W", x |-> "X",
     y |-> "Y", z |-> "Z"]

\* One character, case folded (the i of iregex).
FoldChar(ch) == IF ch \in DOMAIN Upper THEN Upper[ch] ELSE ch

Fold(str) == [ix \in 1..Len(str) |-> FoldChar(str[ix])]

\* str.startswith(prefix)
StartsWith(str, prefix) ==
    /\ Len(prefix) <= Len(str)
    /\ SubSeq(str, 1, Len(prefix)) = prefix

RECURSIVE Join(_, _)
\* sep.join(strs)
Join(sep, strs) ==
    IF strs = <<>> THEN <<>>
    ELSE IF Len(strs) = 1 THEN strs[1]
    ELSE strs[1] \o sep \o Join(sep, Tail(strs))

RECURSIVE SplitBar(_, _)
\* The alternatives of the regular expression "(" + pattern + ")": the
\* pattern cut at every "|"; acc is the alternative being read.
SplitBar(pattern, acc) ==
    IF pattern = <<>> THEN <<acc>>
    ELSE IF Head(pattern) = "|" THEN <<acc>> \o SplitBar(Tail(pattern), <<>>)
    ELSE SplitBar(Tail(pattern), Append(acc, Head(pattern)))

Alternatives(pattern) ==
    LET parts == SplitBar(pattern, <<>>) IN {parts[ix] : ix \in 1..Len(parts)}

\* Whether the regular expression pattern, "(a|b)" or "^(a|b)", matches str
\* without regard to case: anchored, some alternative is a prefix of str;
\* otherwise some alternative occurs somewhere in it.
IRegex(str, pattern) ==
    LET anchored == pattern # <<>> /\ Head(pattern) = "^"
        group == IF anchored THEN Tail(pattern) ELSE pattern
        body == SubSeq(group, 2, Len(group) - 1)
    IN  \E alt \in Alternatives(body) :
            \E ix \in 1..(IF anchored THEN 1 ELSE Len(str) + 1) :
                /\ ix + Len(alt) - 1 <= Len(str)
                /\ Fold(SubSeq(str, ix, ix + Len(alt) - 1)) = Fold(alt)

Bar == <<"|">>
Amp == <<"&">>
Space == <<" ">>

----------------------------------------------------------------------------
(* The schema: for every model, what each name of a lookup path resolves    *)
(* to: "" for a column, the related model's name for a relation.            *)

Schema ==
    [CPCGroup |->
        [group |-> "", title |-> "", subclass |-> "CPCSubclass",
         patents |-> "PatentCPCGroup"],
     Patent |->
        [id |-> "", office |-> "", office_patent_id |-> "", type |-> "",
         application_filed_date |-> "", granted_date |-> "", title |-> "",
         abstract_processed |-> "", claims_count |-> "", figures_count |-> "",
         sheets_count |-> "", withdrawn |-> "", granted_year |-> "",
         application_year |-> "", years_to_get_granted |-> "",
         title_processed |-> "", title_word_count_without_processing |-> "",
         title_word_count_with_processing |-> "",
         abstract_word_count_without_processing |-> "",
         abstract_word_count_with_processing |-> "", cpc_groups_count |-> "",
         assignee_count |-> "", inventor_count |-> "",
         incoming_citations_count |-> "", outgoing_citations_count |-> "",
         representation |-> "", cpc_groups |-> "PatentCPCGroup",
         pct_data |-> "PCTData", inventors |-> "Inventor",
         assignees |-> "Assignee", citations |-> "PatentCitation",
         cited_by |-> "PatentCitation"],
     PatentCPCGroup |->
        [id |-> "", patent |-> "Patent", cpc_group |-> "CPCGroup"],
     PCTData |->
        [id |-> "", patent |-> "Patent", pct_id |-> "",
         published_or_filed_date |-> "", filed_country |-> "", granted |-> "",
         representation |-> ""],
     Location |->
        [id |-> "", country_code |-> "", state |-> "", city |-> "",
         point |-> "", county_fips |-> "", state_fips |-> "",
         inventors |-> "Inventor", assignees |-> "Assignee"],
     Inventor |->
        [id |-> "", patent |-> "Patent", location |-> "Location",
         first_name |-> "", last_name |-> "", male |-> ""],
     Assignee |->
        [id |-> "", patent |-> "Patent", location |-> "Location",
         first_name |-> "", last_name |-> "", organization |-> "",
         is_organization |-> ""]]

RECURSIVE Resolves(_, _)
\* Whether the names of a lookup path lead from model to a column or a
\* relation; the datastore layer raises FieldError for a path that does not.
Resolves(model, path) ==
    IF path = <<>> THEN TRUE
    ELSE /\ model \in DOMAIN Schema
         /\ Head(path) \in DOMAIN Schema[model]
         /\ Resolves(Schema[model][Head(path)], Tail(path))

\* The relations of Patent that hold several rows per patent.
ManyRelations == {"cpc_groups", "pct_data", "inventors", "assignees"}

----------------------------------------------------------------------------
(* The rows every snapshot is cut from.                                     *)

NULL == -1
NullText == <<"<NULL>">>

Golf == <<"G", "o", "l", "f">>
Tennis == <<"T", "e", "n", "n", "i", "s">>
Net == <<"N", "e", "t">>
golf == <<"g", "o", "l", "f">>
tennis == <<"t", "e", "n", "n", "i", "s">>

SecA == <<"A">>
SecB == <<"B">>
ClsA63 == <<"A", "6", "3">>
ClsB01 == <<"B", "0", "1">>
SubA63B == <<"A", "6", "3", "B">>
SubB01D == <<"B", "0", "1", "D">>
GrpA63B71 == <<"A", "6", "3", "B", "7", "1", "/", "1", "4", "6">>
GrpB01D1 == <<"B", "0", "1", "D", "1", "/", "0", "0">>

Al == <<"A", "l">>
Bo == <<"B", "o">>
Li == <<"L", "i">>
Acme == <<"A", "c", "m", "e">>
Bolt == <<"B", "o", "l", "t">>
W1 == <<"W", "1">>
W2 == <<"W", "2">>

PatentIds == {1, 2, 3}

PatentRows ==
    [ix \in PatentIds |->
        CASE ix = 1 ->
                [id |-> 1, office |-> "USPTO", type |-> "utility",
                 application_filed_date |-> 2, granted_date |-> 3,
                 title |-> Golf, abstract_processed |-> Net,
                 claims_count |-> 2, figures_count |-> 0, sheets_count |-> 1,
                 withdrawn |-> "False"]
          [] ix = 2 ->
                [id |-> 2, office |-> "USPTO", type |-> "design",
                 application_filed_date |-> NULL, granted_date |-> 1,
                 title |-> Tennis, abstract_processed |-> NullText,
                 claims_count |-> 0, figures_count |-> NULL,
                 sheets_count |-> NULL, withdrawn |-> "True"]
          [] OTHER ->
                [id |-> 3, office |-> "EPO", type |-> "utility",
                 application_filed_date |-> 1, granted_date |-> 2,
                 title |-> Net, abstract_processed |-> golf,
                 claims_count |-> 1, figures_count |-> 2, sheets_count |-> 0,
                 withdrawn |-> "False"]]

\* PatentCPCGroup: unique on (patent, cpc_group).
LinkRows ==
    {[id |-> 1, patent |-> 1, group |-> GrpA63B71],
     [id |-> 2, patent |-> 1, group |-> GrpB01D1],
     [id |-> 3, patent |-> 2, group |-> GrpB01D1],
     [id |-> 4, patent |-> 3, group |-> GrpA63B71]}

PctRows ==
    {[id |-> 1, patent |-> 1, published_or_filed_date |-> 1,
      granted |-> "True",
      representation |-> W1],
     [id |-> 2, patent |-> 1, published_or_filed_date |-> 2,
      granted |-> "False",
      representation |-> W2],
     [id |-> 3, patent |-> 3, published_or_filed_date |-> 3,
      granted |-> "True",
      representation |-> NullText]}

\* Location.point: <<>> for a null point, <<lng, lat>> otherwise.
LocationRows ==
    [ix \in {1, 2, 3} |->
        CASE ix = 1 -> [point |-> <<0, 0>>]
          [] ix = 2 -> [point |-> <<3, 4>>]
          [] OTHER -> [point |-> <<>>]]

\* A boolean column holds "True" or "False", and "None" for null; location is
\* NULL or a Location id.
InventorRows ==
    {[id |-> 1, patent |-> 1, first_name |-> Al, last_name |-> Li,
      male |-> "True", location |-> 1],
     [id |-> 2, patent |-> 1, first_name |-> Bo, last_name |-> Li,
      male |-> "False", location |-> 1],
     [id |-> 3, patent |-> 1, first_name |-> Al, last_name |-> Li,
      male |-> "True", location |-> 2],
     [id |-> 4, patent |-> 2, first_name |-> Al, last_name |-> NullText,
      male |-> "None", location |-> NULL]}

AssigneeRows ==
    {[id |-> 1, patent |-> 1, first_name |-> NullText,
      last_name |-> NullText, organization |-> Acme, location |-> 2],
     [id |-> 2, patent |-> 1, first_name |-> NullText,
      last_name |-> NullText, organization |-> Bolt, location |-> 1],
     [id |-> 3, patent |-> 3, first_name |-> Al, last_name |-> Li,
      organization |-> NullText, location |-> 3]}

\* The snapshots: every subset of the patents, each with its related rows.
Snapshots == SUBSET PatentIds

----------------------------------------------------------------------------
(* Q objects.  A leaf is one lookup: the path of names, the lookup, and    *)
(* its argument (a string in text, texts in words, numbers in nums).  A    *)
(* clause is a sequence of leaves joined by |, and a Q is a sequence of    *)
(* clauses joined by &; Q() is the empty sequence.                         *)

Leaf(path, lookup, text, words, nums) ==
    [path |-> path, lookup |-> lookup, text |-> text, words |-> words,
     nums |-> nums]

\* Q(**{field: value})
Q(leaf) == << <<leaf>> >>

\* Q(a) | Q(b)
QOr(leafA, leafB) == << <<leafA, leafB>> >>

Leaves(query) ==
    UNION {{query[cx][lx] : lx \in DOMAIN query[cx]} : cx \in DOMAIN query}

\* Python truth of the values a bundle holds.
NoneStr == "<None>"
TruthyStr(str) == str \notin {"", NoneStr}
TruthyBound(bound) == bound.t = "date" \/ (bound.t = "int" /\ bound.v # 0)
NoBound == [t |-> "none", v |-> 0]
IntBound(val) == [t |-> "int", v |-> val]
DateBound(val) == [t |-> "date", v |-> val]
NoneRange == [none |-> TRUE, min |-> NoBound, max |-> NoBound]
Range(lo, hi) == [none |-> FALSE, min |-> lo, max |-> hi]
NoneLocation == [none |-> TRUE, lng |-> 0, lat |-> 0, radius |-> 0]
Location(lng, lat, radius) ==
    [none |-> FALSE, lng |-> lng, lat |-> lat, radius |-> radius]

\* exact_query with the test "value is not None" for "value".
exact_query_not_none(field, value) ==
    IF value # NoneStr THEN Q(Leaf(<<field>>, "exact", value, <<>>, <<>>))
    ELSE <<>>

\* exact_query(field, value)
exact_query(field, value) ==
    IF TruthyStr(value) THEN Q(Leaf(<<field>>, "exact", value, <<>>, <<>>))
    ELSE <<>>

\* range_query(field, value); field is the path of the column.
range_query(field, value) ==
    IF ~value.none
    THEN (IF TruthyBound(value.min)
          THEN Q(Leaf(field, "gte", "", <<>>, <<value.min.v>>)) ELSE <<>>)
         \o
         (IF TruthyBound(value.max)
          THEN Q(Leaf(field, "lte", "", <<>>, <<value.max.v>>)) ELSE <<>>)
    ELSE <<>>

\* Q(**{field: value}) for a tri-state flag, added when it is not None.
flag_query(field, value) ==
    IF value # "None" THEN Q(Leaf(field, "exact", value, <<>>, <<>>)) ELSE <<>>

\* f"({keywords})" and f"^({...})"
Paren(pattern) == <<"(">> \o pattern \o <<")">>
Anchored(pattern) == <<"^">> \o Paren(pattern)

\* Q(**{field + "__iregex": pattern}) added when the list is not empty.
iregex_query(field, strs, pattern) ==
    IF strs # <<>> THEN Q(Leaf(field, "iregex", "", <<pattern>>, <<>>))
    ELSE <<>>

\* Q(**{field + "__in": strs}) added when the list is not empty.
in_query(field, strs) ==
    IF strs # <<>> THEN Q(Leaf(field, "in", "", strs, <<>>)) ELSE <<>>

\* Q(**{field + "__distance_lte": (Point(lng, lat), D(m=radius))})
distance_query(field, location) ==
    IF ~location.none
    THEN Q(Leaf(field, "distance_lte", "", <<>>,
                <<location.lng, location.lat, location.radius>>))
    ELSE <<>>

----------------------------------------------------------------------------
(* The criteria bundle: the dict Patent.filter is given.                   *)

\* The bundle of a form left empty: every key present, nothing selected.
EmptyBundle ==
    [patent_keywords_logic |-> Bar, patent_keywords |-> <<>>,
     patent_office |-> "", patent_type |-> "",
     patent_application_filed_date |-> NoneRange,
     patent_granted_date |-> NoneRange, patent_figures_count |-> NoneRange,
     patent_claims_count |-> NoneRange, patent_sheets_count |-> NoneRange,
     patent_withdrawn |-> "None",
     cpc_section |-> <<>>, cpc_class |-> <<>>, cpc_subclass |-> <<>>,
     cpc_group |-> <<>>,
     pct_application_date |-> NoneRange, pct_granted |-> "None",
     inventor_first_name |-> <<>>, inventor_last_name |-> <<>>,
     inventor_male |-> "None", inventor_location |-> NoneLocation,
     assignee_first_name |-> <<>>, assignee_last_name |-> <<>>,
     assignee_organization |-> <<>>, assignee_location |-> NoneLocation]

Keys == DOMAIN EmptyBundle

hierarchies == <<"cpc_section", "cpc_class", "cpc_subclass", "cpc_group">>

\* The keys lines 232-250 read, and those lines 281-321 read.
PatentKeys ==
    {"patent_keywords_logic", "patent_keywords", "patent_office",
     "patent_type", "patent_application_filed_date", "patent_granted_date",
     "patent_figures_count", "patent_claims_count", "patent_sheets_count",
     "patent_withdrawn"}

RelatedKeys ==
    {"pct_application_date", "pct_granted", "inventor_first_name",
     "inventor_last_name", "inventor_male", "inventor_location",
     "assignee_first_name", "assignee_last_name", "assignee_organization",
     "assignee_location"}

\* The bundle without one of its keys.
Without(bundle, key) == [kx \in DOMAIN bundle \ {key} |-> bundle[kx]]

----------------------------------------------------------------------------
(* Patent.filter, one step at a time.  A frame holds the locals of one     *)
(* invocation; a step reads and writes the bundle the frame was given.     *)

NewFrame(bundle) ==
    [pc |-> "start", bundle |-> bundle, level_index |-> 0, below |-> 1,
     keys |-> <<>>, ki |-> 1, tmp |-> <<>>, patent_query |-> <<>>,
     sections |-> <<>>, classes |-> <<>>, subclasses |-> <<>>,
     groups |-> <<>>, cpc_query |-> <<>>, query |-> <<>>, error |-> ""]

Raise(frame, error) == [frame EXCEPT !.pc = "raised", !.error = error]

Effect(frame, bundle) == [f |-> frame, d |-> bundle]

\* Lines 232-250: the keyword pattern and patent_query.
patent_query(d) ==
    LET keywords == Join(d.patent_keywords_logic, d.patent_keywords) IN
    exact_query("office", d.patent_office)
    \o exact_query("type", d.patent_type)
    \o range_query(<<"application_filed_date">>,
                   d.patent_application_filed_date)
    \o range_query(<<"granted_date">>, d.patent_granted_date)
    \o range_query(<<"figures_count">>, d.patent_figures_count)
    \o range_query(<<"claims_count">>, d.patent_claims_count)
    \o range_query(<<"sheets_count">>, d.patent_sheets_count)
    \o flag_query(<<"withdrawn">>, d.patent_withdrawn)
    \o (IF d.patent_keywords # <<>>
        THEN QOr(Leaf(<<"title">>, "iregex", "", <<Paren(keywords)>>, <<>>),
                 Leaf(<<"abstract">>, "iregex", "", <<Paren(keywords)>>, <<>>))
        ELSE <<>>)

StepStart(frame, d) ==
    IF ~(PatentKeys \subseteq DOMAIN d) THEN Effect(Raise(frame, "KeyError"), d)
    ELSE Effect([frame EXCEPT !.pc = "iter",
                              !.patent_query = patent_query(d),
                              !.level_index = 0, !.below = 1], d)

\* The inner loop over hierarchies[level_index + 1 : level_index + 2]: the
\* adjacent level only.
NextPairAdjacent(frame) ==
    [frame EXCEPT !.level_index = frame.level_index + 1,
                  !.below = frame.level_index + 2, !.pc = "iter"]

\* The next (level_index, hierarchy_below) of the two outer loops of lines
\* 256-257, as 0-based indexes into hierarchies.
NextPair(frame) ==
    IF frame.below + 1 < Len(hierarchies)
    THEN [frame EXCEPT !.below = frame.below + 1, !.pc = "iter"]
    ELSE [frame EXCEPT !.level_index = frame.level_index + 1,
                       !.below = frame.level_index + 2, !.pc = "iter"]

\* Line 258: for key in data[level], the list read as the loop starts.
StepIter(frame, d) ==
    LET level == hierarchies[frame.level_index + 1] IN
    IF frame.below >= Len(hierarchies)
    THEN Effect([frame EXCEPT !.pc = "sections"], d)
    ELSE IF level \notin DOMAIN d THEN Effect(Raise(frame, "KeyError"), d)
    ELSE IF d[level] = <<>> THEN Effect(NextPair(frame), d)
    ELSE Effect([frame EXCEPT !.pc = "comp", !.keys = d[level], !.ki = 1], d)

\* not keyword.startswith(key)
Kept(keyword, key) == ~StartsWith(keyword, key)

RECURSIVE RemoveWhileIterating(_, _, _)
\* for keyword in keywords: if keyword.startswith(key):
\* keywords.remove(keyword); at is the position the iterator is at.
RemoveWhileIterating(keywords, key, at) ==
    IF at > Len(keywords) THEN keywords
    ELSE IF StartsWith(keywords[at], key)
    THEN RemoveWhileIterating(SubSeq(keywords, 1, at - 1)
                              \o SubSeq(keywords, at + 1, Len(keywords)),
                              key, at + 1)
    ELSE RemoveWhileIterating(keywords, key, at + 1)

\* The pruning done by removing from the list being iterated.
PrunedInPlace(keywords, key) == RemoveWhileIterating(keywords, key, 1)

\* [keyword for keyword in keywords if not keyword.startswith(key)]
Pruned(keywords, key) ==
    SelectSeq(keywords, LAMBDA keyword : Kept(keyword, key))

\* Lines 260-263: the list comprehension over data[hierarchy_below].
StepComp(frame, d) ==
    LET hierarchy_below == hierarchies[frame.below + 1]
        key == frame.keys[frame.ki]
    IN  IF hierarchy_below \notin DOMAIN d
        THEN Effect(Raise(frame, "KeyError"), d)
        ELSE Effect([frame EXCEPT
                        !.pc = "store",
                        !.tmp = Pruned(d[hierarchy_below], key)], d)

\* Line 259: data[hierarchy_below] = the list just built.
StepStore(frame, d) ==
    LET hierarchy_below == hierarchies[frame.below + 1]
        stored == [kx \in DOMAIN d \cup {hierarchy_below} |->
                      IF kx = hierarchy_below THEN frame.tmp ELSE d[kx]]
    IN  IF frame.ki < Len(frame.keys)
        THEN Effect([frame EXCEPT !.pc = "comp", !.ki = frame.ki + 1], stored)
        ELSE Effect(NextPair(frame), stored)

GroupCode == <<"cpc_groups", "cpc_group", "group">>

\* Lines 266-277: one level's prefix constraint over the linked groups.
level_query(codes) == iregex_query(GroupCode, codes, Anchored(Join(Bar, codes)))

\* Lines 266-279, one read of the bundle per step.
StepSections(frame, d) ==
    IF "cpc_section" \notin DOMAIN d THEN Effect(Raise(frame, "KeyError"), d)
    ELSE Effect([frame EXCEPT !.pc = "classes",
                              !.sections = d.cpc_section,
                              !.cpc_query = level_query(d.cpc_section)], d)

StepClasses(frame, d) ==
    IF "cpc_class" \notin DOMAIN d THEN Effect(Raise(frame, "KeyError"), d)
    ELSE Effect([frame EXCEPT !.pc = "subclasses",
                              !.classes = d.cpc_class,
                              !.cpc_query = @ \o level_query(d.cpc_class)], d)

StepSubclasses(frame, d) ==
    IF "cpc_subclass" \notin DOMAIN d THEN Effect(Raise(frame, "KeyError"), d)
    ELSE Effect([frame EXCEPT !.pc = "groups",
                              !.subclasses = d.cpc_subclass,
                              !.cpc_query = @ \o level_query(d.cpc_subclass)],
                d)

StepGroups(frame, d) ==
    IF "cpc_group" \notin DOMAIN d THEN Effect(Raise(frame, "KeyError"), d)
    ELSE Effect([frame EXCEPT
                    !.pc = "related",
                    !.groups = d.cpc_group,
                    !.cpc_query =
                        @ \o in_query(<<"cpc_groups", "cpc_group">>,
                                      d.cpc_group)], d)

\* Lines 281-285.
pct_query(d) ==
    range_query(<<"pct_data", "published_or_filed_date">>,
                d.pct_application_date)
    \o flag_query(<<"pct_data", "granted">>, d.pct_granted)

\* Lines 287-302.
inventor_query(d) ==
    iregex_query(<<"inventors", "first_name">>, d.inventor_first_name,
                 Anchored(Join(<<>>, d.inventor_first_name)))
    \o in_query(<<"inventors", "last_name">>, d.inventor_last_name)
    \o flag_query(<<"inventors", "male">>, d.inventor_male)
    \o distance_query(<<"inventors", "location", "point">>,
                      d.inventor_location)

\* Lines 304-321.
assignee_query(d) ==
    iregex_query(<<"assignees", "first_name">>, d.assignee_first_name,
                 Anchored(Join(<<>>, d.assignee_first_name)))
    \o in_query(<<"assignees", "last_name">>, d.assignee_last_name)
    \o in_query(<<"assignees", "organization">>, d.assignee_organization)
    \o distance_query(<<"assignees", "location", "point">>,
                      d.assignee_location)

\* Patent.objects.filter(query) resolves every lookup path as it is called.
Resolvable(query) ==
    \A leaf \in Leaves(query) : Resolves("Patent", leaf.path)

\* Lines 281-325: the remaining fragments, their conjunction, and the
\* queryset Patent.objects.filter returns.
StepRelated(frame, d) ==
    IF ~(RelatedKeys \subseteq DOMAIN d) THEN Effect(Raise(frame, "KeyError"), d)
    ELSE LET query == frame.patent_query \o frame.cpc_query \o pct_query(d)
                      \o inventor_query(d) \o assignee_query(d)
         IN  IF Resolvable(query)
             THEN Effect([frame EXCEPT !.pc = "done", !.query = query], d)
             ELSE Effect(Raise([frame EXCEPT !.query = query], "FieldError"),
                         d)

Running(frame) == frame.pc \notin {"done", "raised"}

\* One step of an invocation on the bundle d.
Step(frame, d) ==
    CASE frame.pc = "start" -> StepStart(frame, d)
      [] frame.pc = "iter" -> StepIter(frame, d)
      [] frame.pc = "comp" -> StepComp(frame, d)
      [] frame.pc = "store" -> StepStore(frame, d)
      [] frame.pc = "sections" -> StepSections(frame, d)
      [] frame.pc = "classes" -> StepClasses(frame, d)
      [] frame.pc = "subclasses" -> StepSubclasses(frame, d)
      [] frame.pc = "groups" -> StepGroups(frame, d)
      [] frame.pc = "related" -> StepRelated(frame, d)
      [] OTHER -> Effect(frame, d)

RECURSIVE Run(_, _)
\* An invocation run from a frame to its return or its exception.
Run(frame, d) ==
    IF Running(frame)
    THEN LET e == Step(frame, d) IN Run(e.f, e.d)
    ELSE Effect(frame, d)

\* Patent.filter(data), called with the bundle object `bundle` holding d.
filter(bundle, d) == Run(NewFrame(bundle), d)

----------------------------------------------------------------------------
(* The rows the datastore returns for a queryset.                          *)

RelatedRows(relation) ==
    CASE relation = "cpc_groups" -> LinkRows
      [] relation = "pct_data" -> PctRows
      [] relation = "inventors" -> InventorRows
      [] relation = "assignees" -> AssigneeRows

\* The relations a Q joins: those its lookup paths start with.
JoinedBy(query) == {leaf.path[1] : leaf \in Leaves(query)} \cap ManyRelations

\* The row of a LEFT OUTER JOIN that found no related row: every column null.
NullRow(relation) ==
    CASE relation = "cpc_groups" -> [id |-> 0, patent |-> 0, group |-> NullText]
      [] relation = "pct_data" ->
            [id |-> 0, patent |-> 0, published_or_filed_date |-> NULL,
             granted |-> "None", representation |-> NullText]
      [] relation = "inventors" ->
            [id |-> 0, patent |-> 0, first_name |-> NullText,
             last_name |-> NullText, male |-> "None", location |-> NULL]
      [] relation = "assignees" ->
            [id |-> 0, patent |-> 0, first_name |-> NullText,
             last_name |-> NullText, organization |-> NullText,
             location |-> NULL]

Of(p, relation) == {row \in RelatedRows(relation) : row.patent = p}

\* The rows one relation brings to the join of patent p: an INNER JOIN for a
\* relation of `inner`, a LEFT OUTER JOIN for one of `outer`, and no join
\* (one row that is never read) for any other.
JoinRows(p, relation, inner, outer) ==
    IF relation \in inner THEN Of(p, relation)
    ELSE IF relation \in outer /\ Of(p, relation) # {} THEN Of(p, relation)
    ELSE {NullRow(relation)}

PointOf(location) ==
    IF location = NULL THEN <<>> ELSE LocationRows[location].point

\* The column a lookup path names, in one row of the join.
Column(path, row) ==
    IF path[1] \in ManyRelations
    THEN CASE path[1] = "cpc_groups" -> row.cpc_groups.group
           [] path[2] = "location" -> PointOf(row[path[1]].location)
           [] OTHER -> row[path[1]][path[2]]
    ELSE row.patent[path[1]]

\* point__distance_lte: planar distance on the grid the points lie on.
WithinRadius(point, lng, lat, radius) ==
    (point[1] - lng) * (point[1] - lng) + (point[2] - lat) * (point[2] - lat)
        <= radius * radius

LeafHolds(leaf, row) ==
    LET col == Column(leaf.path, row) IN
    CASE leaf.lookup = "exact" -> col = leaf.text
      [] leaf.lookup = "gte" -> col # NULL /\ col >= leaf.nums[1]
      [] leaf.lookup = "lte" -> col # NULL /\ col <= leaf.nums[1]
      [] leaf.lookup = "iregex" -> col # NullText /\ IRegex(col, leaf.words[1])
      [] leaf.lookup = "in" ->
            col # NullText /\ \E wx \in DOMAIN leaf.words : leaf.words[wx] = col
      [] leaf.lookup = "distance_lte" ->
            col # <<>> /\ WithinRadius(col, leaf.nums[1], leaf.nums[2],
                                       leaf.nums[3])

\* WHERE: every clause has a leaf that holds.
Satisfies(query, row) ==
    \A cx \in DOMAIN query :
        \E lx \in DOMAIN query[cx] : LeafHolds(query[cx][lx], row)

\* The rows of the join for patent p that pass the WHERE clause.
JoinOf(p, query, inner, outer) ==
    {row \in [patent : {PatentRows[p]},
              cpc_groups : JoinRows(p, "cpc_groups", inner, outer),
              pct_data : JoinRows(p, "pct_data", inner, outer),
              inventors : JoinRows(p, "inventors", inner, outer),
              assignees : JoinRows(p, "assignees", inner, outer)] :
        Satisfies(query, row)}

\* Patent.objects.filter(query), evaluated: how many rows of the result are
\* patent p.  The queryset takes no distinct().
Rows(dbv, query) ==
    [p \in dbv |-> Cardinality(JoinOf(p, query, JoinedBy(query), {}))]

----------------------------------------------------------------------------
(* Patent.fetch_representation.                                            *)

Digits == <<"0", "1", "2", "3", "4", "5", "6", "7", "8", "9">>

\* ST_X / ST_Y of a point, as text; null for a null point.
Coordinate(point, axis) ==
    IF point = <<>> THEN NullText ELSE <<Digits[point[axis] + 1]>>

\* Concat(...): a null argument reads as the empty string.
Concat(parts) ==
    Join(<<>>, [ix \in DOMAIN parts |->
                   IF parts[ix] = NullText THEN <<>> ELSE parts[ix]])

\* StringAgg(expression, distinct=...) over the rows of one patent, the
\* expression given as its value on each row: every non-null value with the
\* number of times the aggregate holds it.
StringAgg(expression, distinct) ==
    {[entry |-> val,
      count |-> IF distinct THEN 1
                ELSE Cardinality({row \in DOMAIN expression :
                                    expression[row] = val})] :
        val \in {expression[row] : row \in DOMAIN expression} \ {NullText}}

GroupOf(row) == row.cpc_groups.group
PctOf(row) == row.pct_data.representation
InventorName(row) ==
    Concat(<<row.inventors.first_name, Space, row.inventors.last_name>>)
InventorPoint(row) ==
    Concat(<<Coordinate(PointOf(row.inventors.location), 1), Bar,
             Coordinate(PointOf(row.inventors.location), 2)>>)
AssigneeName(row) ==
    Concat(<<row.assignees.first_name, Space, row.assignees.last_name, Space,
             row.assignees.organization>>)
AssigneePoint(row) ==
    Concat(<<Coordinate(PointOf(row.assignees.location), 1), Bar,
             Coordinate(PointOf(row.assignees.location), 2)>>)

\* Lines 341-385: the six aggregates over the rows of patent p's join.
Aggregates(rows) ==
    [cpc_groups_groups |-> StringAgg([row \in rows |-> GroupOf(row)], TRUE),
     pct_documents |-> StringAgg([row \in rows |-> PctOf(row)], TRUE),
     inventor_names |-> StringAgg([row \in rows |-> InventorName(row)], TRUE),
     inventor_points |-> StringAgg([row \in rows |-> InventorPoint(row)], TRUE),
     assignee_names |-> StringAgg([row \in rows |-> AssigneeName(row)], TRUE),
     assignee_points |-> StringAgg([row \in rows |-> AssigneePoint(row)], TRUE)]

RECURSIVE Ascending(_)
\* order_by("id")
Ascending(ids) ==
    IF ids = {} THEN <<>>
    ELSE LET least == CHOOSE p \in ids : \A other \in ids : p <= other
         IN  <<least>> \o Ascending(ids \ {least})

\* patents.annotate(...).order_by("id") on the queryset filter(query): a
\* relation the queryset already joins is aggregated over that join; the
\* others are joined LEFT OUTER.  One row per patent that has a row left.
fetch_representation(dbv, query) ==
    LET inner == JoinedBy(query)
        outer == ManyRelations \ inner
        kept == {p \in dbv : JoinOf(p, query, inner, outer) # {}}
    IN  [called |-> TRUE,
         of |-> 0,
         order |-> Ascending(kept),
         rows |-> [p \in kept |-> Aggregates(JoinOf(p, query, inner, outer))]]

NoRep == [called |-> FALSE, of |-> 0, order |-> <<>>, rows |-> <<>>]

----------------------------------------------------------------------------
(* The callers.                                                            *)


Lists(codes, longest) == UNION {[1..len -> codes] : len \in 0..longest}

\* What a caller may put under a key, per specification.
EmptyRanges == {NoneRange, Range(NoBound, NoBound)}

EmptyMenu ==
    [patent_keywords_logic |-> {Bar, Amp, <<>>},
     patent_office |-> {"", NoneStr}, patent_type |-> {"", NoneStr},
     patent_application_filed_date |-> EmptyRanges,
     patent_granted_date |-> EmptyRanges, patent_figures_count |-> EmptyRanges,
     patent_claims_count |-> EmptyRanges, patent_sheets_count |-> EmptyRanges,
     pct_application_date |-> EmptyRanges]

DateBounds == {NoBound, DateBound(1), DateBound(2)}
IntBounds == {NoBound, IntBound(0), IntBound(1), IntBound(2)}
DateRanges == {Range(lo, hi) : lo \in DateBounds, hi \in DateBounds}
IntRanges == {Range(lo, hi) : lo \in IntBounds, hi \in IntBounds}

RangeMenu ==
    [patent_application_filed_date |-> DateRanges,
     patent_granted_date |-> DateRanges, patent_figures_count |-> IntRanges,
     patent_claims_count |-> IntRanges, patent_sheets_count |-> IntRanges,
     pct_application_date |-> DateRanges]

FormMenu ==
    [patent_office |-> {"USPTO"},
     patent_keywords |-> {<<golf, tennis>>},
     patent_keywords_logic |-> {Amp},
     patent_withdrawn |-> {"False"},
     cpc_section |-> {<<SecA>>},
     cpc_group |-> {<<GrpB01D1>>},
     pct_granted |-> {"True"},
     inventor_first_name |-> {<<Al>>},
     inventor_last_name |-> {<<Li>>},
     inventor_male |-> {"True"},
     inventor_location |-> {Location(0, 0, 1), Location(0, 0, 5)},
     assignee_organization |-> {<<Acme, Bolt>>},
     assignee_location |-> {Location(3, 4, 5)}]

Init ==
    /\ db \in Snapshots
    /\ data = <<EmptyBundle>>
    /\ before = <<>>
    /\ inv = <<>>
    /\ edits = 0
    /\ calls = 0
    /\ rep = NoRep

\* The caller sets one key of bundle 1 to a value of the menu.
SetKey(menu, limit) ==
    /\ calls = 0
    /\ edits < limit
    /\ \E key \in DOMAIN menu \cap DOMAIN data[1] :
        \E val \in menu[key] :
            /\ val # data[1][key]
            /\ data' = [data EXCEPT ![1] = [@ EXCEPT ![key] = val]]
    /\ edits' = edits + 1
    /\ UNCHANGED <<db, before, inv, calls, rep>>

\* The caller leaves one key out of bundle 1.
DropKey ==
    /\ calls = 0
    /\ edits < MaxEdits
    /\ \E key \in DOMAIN data[1] :
        data' = [data EXCEPT ![1] = Without(@, key)]
    /\ edits' = edits + 1
    /\ UNCHANGED <<db, before, inv, calls, rep>>

\* The caller selects the codes of the four levels of bundle 1.
SelectCodes ==
    /\ calls = 0
    /\ edits = 0
    /\ \E sections \in Lists({SecA, SecB}, MaxCodes),
          classes \in Lists({ClsA63, ClsB01}, MaxCodes),
          subclasses \in Lists({SubA63B, SubB01D}, MaxCodes),
          groups \in Lists({GrpA63B71, GrpB01D1}, MaxCodes) :
        data' = [data EXCEPT ![1] =
                    [@ EXCEPT !.cpc_section = sections, !.cpc_class = classes,
                              !.cpc_subclass = subclasses,
                              !.cpc_group = groups]]
    /\ edits' = 1
    /\ UNCHANGED <<db, before, inv, calls, rep>>

\* Patent.filter(data) called with bundle 1 and run until it returns or
\* raises.
CallFilter ==
    /\ calls < MaxCalls
    /\ LET e == filter(1, data[1]) IN
        /\ inv' = Append(inv, e.f)
        /\ data' = [data EXCEPT ![1] = e.d]
    /\ before' = Append(before, data[1])
    /\ calls' = calls + 1
    /\ UNCHANGED <<db, edits, rep>>

\* Patent.fetch_representation(patents) on the queryset the last call
\* returned.
FetchRepresentation ==
    /\ calls >= 1
    /\ inv[calls].pc = "done"
    /\ ~rep.called
    /\ rep' = [fetch_representation(db, inv[calls].query) EXCEPT !.of = calls]
    /\ UNCHANGED <<db, data, before, inv, edits, calls>>

\* A search: criteria set in the form, then filter and the representation.
Next ==
    \/ SetKey(FormMenu, MaxCriteria)
    \/ CallFilter
    \/ FetchRepresentation

Spec == Init /\ [][Next]_vars

\* A form left empty, in every spelling of empty, or with keys left out.
NextEmpty ==
    \/ SetKey(EmptyMenu, MaxEdits)
    \/ DropKey
    \/ CallFilter

SpecEmpty == Init /\ [][NextEmpty]_vars

\* Range criteria only.
NextRange ==
    \/ SetKey(RangeMenu, MaxEdits)
    \/ CallFilter

SpecRange == Init /\ [][NextRange]_vars

\* Classification criteria only.
NextCpc ==
    \/ SelectCodes
    \/ CallFilter

\* The classification criteria are read against the snapshot of all patents.
InitCpc == Init /\ db = PatentIds

SpecCpc == InitCpc /\ [][NextCpc]_vars

\* Two invocations of filter, each a thread, given the same bundle object
\* or two bundles of equal contents.
InitConc ==
    /\ db = PatentIds
    /\ \E sections \in Lists({SecA, SecB}, MaxCodes),
          classes \in Lists({ClsA63}, 1),
          groups \in Lists({GrpA63B71, GrpB01D1}, MaxCodes),
          second \in {1, 2} :
        LET d == [EmptyBundle EXCEPT !.cpc_section = sections,
                                     !.cpc_class = classes,
                                     !.cpc_group = groups]
        IN  /\ data = <<d, d>>
            /\ before = <<d, d>>
            /\ inv = <<NewFrame(1), NewFrame(second)>>
    /\ edits = 0
    /\ calls = 0
    /\ rep = NoRep

\* One step of invocation ix, between two switches of thread.
StepInv(ix) ==
    /\ Running(inv[ix])
    /\ LET e == Step(inv[ix], data[inv[ix].bundle]) IN
        /\ inv' = [inv EXCEPT ![ix] = e.f]
        /\ data' = [data EXCEPT ![inv[ix].bundle] = e.d]
    /\ UNCHANGED <<db, before, edits, calls, rep>>

NextConc == \E ix \in DOMAIN inv : StepInv(ix)

SpecConc == InitConc /\ [][NextConc]_vars

----------------------------------------------------------------------------
(* Properties.                                                             *)

Returned(ix) == ix <= Len(inv) /\ inv[ix].pc = "done"

\* The patents of the result of invocation ix, and all patents once each.
Result(ix) == Rows(db, inv[ix].query)
InResult(ix, p) == Result(ix)[p] >= 1
EachOnce == [p \in db |-> 1]

\* Every key present, and empty or unset.
AllEmpty(d) ==
    /\ DOMAIN d = Keys
    /\ d.patent_office \in {"", NoneStr}
    /\ d.patent_type \in {"", NoneStr}
    /\ \A key \in DOMAIN RangeMenu : d[key] \in EmptyRanges
    /\ \A key \in {"patent_withdrawn", "pct_granted", "inventor_male"} :
        d[key] = "None"
    /\ \A key \in {"patent_keywords", "cpc_section", "cpc_class",
                   "cpc_subclass", "cpc_group", "inventor_first_name",
                   "inventor_last_name", "assignee_first_name",
                   "assignee_last_name", "assignee_organization"} :
        d[key] = <<>>
    /\ d.inventor_location.none
    /\ d.assignee_location.none

\* C1: a bundle whose every key is present and empty or unset composes the
\* always-true predicate, and the result is every patent of the snapshot,
\* once.
C1_EmptyCriteriaReturnAll ==
    \A ix \in DOMAIN inv :
        AllEmpty(before[ix]) =>
            /\ inv[ix].pc = "done"
            /\ inv[ix].query = <<>>
            /\ Result(ix) = EachOnce

C1_Witness ==
    /\ Returned(1)
    /\ AllEmpty(before[1])
    /\ before[1].patent_office = NoneStr
    /\ before[1].patent_figures_count = Range(NoBound, NoBound)
    /\ db = PatentIds

\* The bundle with every key it lacks present and empty.
Filled(d) ==
    [key \in Keys |-> IF key \in DOMAIN d THEN d[key] ELSE EmptyBundle[key]]

\* C2: filter never ends in an error because a key is missing, and the
\* result is the one the bundle gives with the key present and empty.
C2_MissingKeyNoError ==
    \A ix \in DOMAIN inv :
        /\ inv[ix].pc = "done"
        /\ Result(ix) = Rows(db, filter(1, Filled(before[ix])).f.query)

\* The column of each range dimension of the patent itself.
OwnRange ==
    [patent_application_filed_date |-> "application_filed_date",
     patent_granted_date |-> "granted_date",
     patent_figures_count |-> "figures_count",
     patent_claims_count |-> "claims_count",
     patent_sheets_count |-> "sheets_count"]

Absent(bound) == bound.t = "none"
Unbounded(range) == range.none \/ (Absent(range.min) /\ Absent(range.max))

\* (min is absent or v >= min) and (max is absent or v <= max)
InRange(val, range) ==
    /\ Absent(range.min) \/ val >= range.min.v
    /\ Absent(range.max) \/ val <= range.max.v

\* Patent p has a value in every dimension the bundle bounds.
HasValues(p, d) ==
    \A key \in DOMAIN OwnRange :
        Unbounded(d[key]) \/ PatentRows[p][OwnRange[key]] # NULL

InRanges(p, d) ==
    /\ \A key \in DOMAIN OwnRange :
        Unbounded(d[key]) \/ InRange(PatentRows[p][OwnRange[key]], d[key])
    /\ \/ Unbounded(d.pct_application_date)
       \/ \E row \in Of(p, "pct_data") :
            InRange(row.published_or_filed_date, d.pct_application_date)

\* C3: a patent satisfies the range fragments exactly when its value lies
\* within the bounds that are present, 0 being a bound like any other.
C3_RangeBounds ==
    \A ix \in DOMAIN inv :
        /\ inv[ix].pc = "done"
        /\ \A p \in db :
            HasValues(p, before[ix]) =>
                (InResult(ix, p) <=> InRanges(p, before[ix]))

\* The codes of d at level number `level` (1 is the section level) that start
\* with no code d holds at any coarser level.
Remaining(d, level) ==
    SelectSeq(d[hierarchies[level]],
              LAMBDA code :
                \A coarser \in 1..(level - 1) :
                    \A cx \in DOMAIN d[hierarchies[coarser]] :
                        ~StartsWith(code, d[hierarchies[coarser]][cx]))

\* The classification predicate over four selections, none pruned further.
Classification(sections, classes, subclasses, groups) ==
    level_query(sections) \o level_query(classes) \o level_query(subclasses)
    \o in_query(<<"cpc_groups", "cpc_group">>, groups)

\* C4: after the de-duplication loop each finer level holds its original
\* selection, in order, less every code that starts with a code originally
\* selected at any coarser level; the section selection is as given; the
\* predicate is built from these.  Section ["A"] with group ["A63B71/146"]
\* constrains on section "A" alone.
C4_PrunedByEveryCoarserLevel ==
    \A ix \in DOMAIN inv :
        inv[ix].pc = "done" =>
            /\ inv[ix].sections = before[ix].cpc_section
            /\ inv[ix].classes = Remaining(before[ix], 2)
            /\ inv[ix].subclasses = Remaining(before[ix], 3)
            /\ inv[ix].groups = Remaining(before[ix], 4)
            /\ inv[ix].cpc_query =
                Classification(before[ix].cpc_section, Remaining(before[ix], 2),
                               Remaining(before[ix], 3),
                               Remaining(before[ix], 4))
            /\ ix = Len(inv) =>
                \A level \in 1..Len(hierarchies) :
                    data[1][hierarchies[level]] = Remaining(before[ix], level)
            /\ (/\ before[ix].cpc_section = <<SecA>>
                /\ before[ix].cpc_class = <<>>
                /\ before[ix].cpc_subclass = <<>>
                /\ before[ix].cpc_group = <<GrpA63B71>>) =>
                    /\ data[1].cpc_group = <<>>
                    /\ inv[ix].cpc_query = level_query(<<SecA>>)

\* A class pruned by the section, and a subclass and a group that start with
\* that class: pruned although the class list the loop then reads is empty.
C4_Witness ==
    /\ Returned(1)
    /\ before[1].cpc_section = <<SecA>>
    /\ before[1].cpc_class = <<ClsA63>>
    /\ before[1].cpc_subclass = <<SubA63B, SubB01D>>
    /\ before[1].cpc_group = <<GrpB01D1, GrpA63B71>>
    /\ inv[1].classes = <<>>
    /\ inv[1].subclasses = <<SubB01D>>
    /\ inv[1].groups = <<>>

\* C5: the de-duplication loop leaves its own output unchanged, and a second
\* call with the bundle of a first builds the same classification predicate.
C5_DedupIdempotent ==
    \A ix \in DOMAIN inv :
        (ix > 1 /\ inv[ix - 1].pc = "done") =>
            /\ inv[ix].pc = "done"
            /\ inv[ix].sections = before[ix].cpc_section
            /\ inv[ix].classes = before[ix].cpc_class
            /\ inv[ix].subclasses = before[ix].cpc_subclass
            /\ inv[ix].groups = before[ix].cpc_group
            /\ ix = Len(inv) =>
                \A level \in 1..Len(hierarchies) :
                    data[1][hierarchies[level]] = before[ix][hierarchies[level]]
            /\ inv[ix].cpc_query = inv[ix - 1].cpc_query

\* A second call on a bundle the first call pruned.
C5_Witness ==
    /\ Returned(2)
    /\ before[1].cpc_section = <<SecA>>
    /\ before[1].cpc_group = <<GrpA63B71, GrpA63B71>>
    /\ before[2].cpc_group = <<>>
    /\ before[2] # before[1]
    /\ inv[2].cpc_query = level_query(<<SecA>>)

\* C9: after filter returns, the caller's bundle holds under every key the
\* value it held when filter was called.
C9_BundleUnchanged ==
    \A ix \in DOMAIN inv : ix = Len(inv) => data[1] = before[ix]

\* C6: the result holds each patent at most once, however many related rows
\* of the patent satisfy a relational criterion.
C6_EachPatentOnce ==
    \A ix \in DOMAIN inv :
        inv[ix].pc = "done" => \A p \in db : Result(ix)[p] <= 1

\* Office, keywords joined with "|" and sections set; every other key empty.
OfficeKeywordsSections(d) ==
    /\ DOMAIN d = Keys
    /\ TruthyStr(d.patent_office)
    /\ d.patent_keywords # <<>>
    /\ d.patent_keywords_logic = Bar
    /\ d.cpc_section # <<>>
    /\ \A key \in Keys \ {"patent_office", "patent_keywords",
                          "patent_keywords_logic", "cpc_section"} :
        d[key] = EmptyBundle[key]

\* The text holds the word somewhere, letters compared without case.
Mentions(text, word) ==
    /\ text # NullText
    /\ \E at \in 1..Len(text) :
        /\ at + Len(word) - 1 <= Len(text)
        /\ Fold(SubSeq(text, at, at + Len(word) - 1)) = Fold(word)

OfficeKeywordsSectionsMatch(p, d) ==
    /\ PatentRows[p].office = d.patent_office
    /\ \E kx \in DOMAIN d.patent_keywords :
        \/ Mentions(PatentRows[p].title, d.patent_keywords[kx])
        \/ Mentions(PatentRows[p].abstract_processed, d.patent_keywords[kx])
    /\ \E link \in Of(p, "cpc_groups") :
        \E sx \in DOMAIN d.cpc_section :
            StartsWith(link.group, d.cpc_section[sx])

\* C7: with office, "|"-joined keywords and sections set, filter completes
\* and a patent is in the result exactly when its office is the one given,
\* its title or processed abstract mentions a keyword, and one of its
\* groups starts with a selected section.
C7_OfficeKeywordsSections ==
    \A ix \in DOMAIN inv :
        OfficeKeywordsSections(before[ix]) =>
            /\ inv[ix].pc = "done"
            /\ \A p \in db :
                InResult(ix, p) <=> OfficeKeywordsSectionsMatch(p, before[ix])

Once(val) == [entry |-> val, count |-> 1]

\* The row of the join that holds the related row `related` of a relation.
With(relation, related) ==
    [rx \in ManyRelations |->
        IF rx = relation THEN related ELSE NullRow(rx)]

\* C8: fetch_representation returns the given patents by ascending id, and
\* every aggregate of a patent holds each distinct value of the patent's
\* related rows exactly once, whatever the other relations add to the join.
C8_RepresentationComplete ==
    rep.called =>
        /\ rep.order = Ascending({p \in db : InResult(rep.of, p)})
        /\ \A p \in DOMAIN rep.rows :
            /\ \A link \in Of(p, "cpc_groups") :
                Once(link.group) \in rep.rows[p].cpc_groups_groups
            /\ Cardinality(rep.rows[p].cpc_groups_groups) =
                Cardinality({link.group : link \in Of(p, "cpc_groups")})
            /\ \A pct \in Of(p, "pct_data") :
                pct.representation # NullText =>
                    Once(pct.representation) \in rep.rows[p].pct_documents
            /\ \A inventor \in Of(p, "inventors") :
                /\ Once(InventorName(With("inventors", inventor)))
                        \in rep.rows[p].inventor_names
                /\ Once(InventorPoint(With("inventors", inventor)))
                        \in rep.rows[p].inventor_points
            /\ \A assignee \in Of(p, "assignees") :
                /\ Once(AssigneeName(With("assignees", assignee)))
                        \in rep.rows[p].assignee_names
                /\ Once(AssigneePoint(With("assignees", assignee)))
                        \in rep.rows[p].assignee_points

\* C10: however the steps of two invocations interleave, on one bundle
\* object or on two, each builds the predicate it builds when it runs alone
\* on the contents its bundle had at first.
C10_InvocationsIndependent ==
    \A ix \in DOMAIN inv :
        inv[ix].pc = "done" =>
            inv[ix].query = filter(inv[ix].bundle, before[ix]).f.query

\* Some linked group of patent p starts with one of the codes; no codes, no
\* constraint.
LevelMatch(p, codes) ==
    codes = <<>> \/ \E link \in Of(p, "cpc_groups") :
                        \E cx \in DOMAIN codes : StartsWith(link.group, codes[cx])

\* Some linked group of patent p is one of the selected groups.
GroupMatch(p, groups) ==
    groups = <<>> \/ \E link \in Of(p, "cpc_groups") :
                        \E gx \in DOMAIN groups : link.group = groups[gx]

\* C11: after de-duplication a patent is in the result exactly when, for
\* each level with codes remaining, one of its linked groups (not
\* necessarily the same group for different levels) starts with one of the
\* level's codes, and for the group level one of its linked groups is among
\* the selected groups.
C11_LevelsIndependent ==
    \A ix \in DOMAIN inv :
        inv[ix].pc = "done" =>
            \A p \in db :
                InResult(ix, p) <=>
                    /\ LevelMatch(p, inv[ix].sections)
                    /\ LevelMatch(p, inv[ix].classes)
                    /\ LevelMatch(p, inv[ix].subclasses)
                    /\ GroupMatch(p, inv[ix].groups)
====
